---- MODULE Spec2Model ----
(***************************************************************************)
(* State-machine model of src/HantekDSO2D10.py: the chunked waveform       *)
(* transfer decoder HantekDSO2000.get_waveform and the App callers that    *)
(* drive it (Tk main thread handlers and the loop_capture threads).        *)
(*                                                                         *)
(* A response frame `inp` is modelled by the fields the code reads from    *)
(* it: its length, whether inp[0:2] is '#9', the three 9-digit header      *)
(* numbers, the fields of the metadata region inp[29:128] and the payload  *)
(* bytes inp[128:], which are PayloadByte(seed, i).                        *)
(*                                                                         *)
(* block_len is 2000 in the source (line 133).  The model keeps every      *)
(* formula in terms of block_len and scales the value down so that whole   *)
(* buffers fit in a state; all sizes below are multiples of it.            *)
(***************************************************************************)
EXTENDS Integers, Sequences, FiniteSets, TLC

\* ------------------------------------------------------------------ bounds
block_len == 2
MaxPackets == 3
MaxThreads == 2

\* ------------------------------------------------------- program constants
start == 29
end_of_meta == 128
MetaSize == 99
UI == 0

LoopThreads == 1..MaxThreads
Callers == {UI} \cup LoopThreads

VARIABLES
    \* HantekDSO2000
    osci,            \* self._osci: "None", "open"
    held,            \* callers whose pending call on self._osci may go to the
                     \* session object disconnect() has closed since
    \* one get_waveform activation per caller
    gw,              \* position inside get_waveform
    ch,              \* argument ch
    samples_data,    \* bytearray (1-based here, 0-based in the source)
    samples_total,
    samples_got,
    meta,
    samples,         \* extracted channel samples, signed
    cal,             \* sr, tt, offset locals
    ret,             \* value returned to the caller
    exc,             \* exception caught at line 152 ("" when none)
    \* environment of one activation
    progress,        \* calls received by progress_callback, in order
    pkts,            \* frames that reached the copy loop (line 94), in order
    last_resp,       \* kind of the latest response read_raw delivered
    \* App
    is_connected,
    is_running,
    btn_cont,        \* state of the "Continuo" button
    task,            \* handler a caller is executing
    lp,              \* loop_capture position of each loop thread
    fetched,         \* per caller: results of the channel fetches of its task
    stopped          \* loop threads started before the latest clearing of
                     \* is_running and not yet ended

decoderVars == <<gw, ch, samples_data, samples_total, samples_got, meta,
                 samples, cal, ret, exc, progress, pkts, last_resp>>
appVars == <<is_connected, is_running, btn_cont, task, lp, fetched, stopped>>
vars == <<osci, held, decoderVars, appVars>>

\* ------------------------------------------------------------ byte helpers
\* Payload byte inp[end_of_meta + i] of a frame with the given seed.
PayloadByte(seed, i) == (200 + 57 * i + 101 * seed) % 256

\* Faulty variant of Signed: the byte taken as unsigned ('B' for 'b').
SignedAsUnsigned(b) == b
\* struct.unpack('b'): one byte read as a signed 8-bit value.
Signed(b) == IF b >= 128 THEN b - 256 ELSE b

Min(a, b) == IF a < b THEN a ELSE b
Max(a, b) == IF a > b THEN a ELSE b

\* inp[start:end_of_meta]: length of the slice for a frame of n bytes.
MetaLen(n) == Max(0, Min(n, end_of_meta) - start)

\* A header or metadata number as the code parses it: ok is FALSE when
\* int()/float() raises ValueError on the field.
Num(v) == [ok |-> TRUE, val |-> v]
NotANumber == [ok |-> FALSE, val |-> 0]

\* The value get_waveform returns: (None, None) or (tiempo, voltaje), the
\* latter kept as the samples and the calibration values the two arrays are
\* computed from (voltaje[i] = samples[i] / 25 * scale - offset,
\* tiempo[i] = i / sr - tt).
NoneNone == [none |-> TRUE, samples |-> <<>>, scale |-> 0, offset |-> 0,
             sr |-> 0, tt |-> 0]
Waveform(s, scale, offset, sr, tt) ==
    [none |-> FALSE, samples |-> s, scale |-> scale, offset |-> offset,
     sr |-> sr, tt |-> tt]

NoMeta == [len |-> 0, flags |-> <<>>, sr |-> NotANumber, tt |-> NotANumber]
NoCal == [sr |-> 0, tt |-> 0, offset |-> 0]

\* ------------------------------------------------------- transport frames
\* Metadata regions the instrument may send (fields of inp[29:128]).
Flag(v) == Num(v)
MetaOf(n, flags, sr, tt) ==
    [len |-> MetaLen(n), flags |-> flags, sr |-> sr, tt |-> tt]

FlagSets ==
    { <<Flag(1), Flag(0), Flag(0), Flag(0)>>,
      <<Flag(1), Flag(1), Flag(0), Flag(0)>>,
      <<Flag(1), Flag(1), Flag(1), Flag(1)>>,
      <<Flag(0), Flag(0), Flag(0), Flag(0)>>,
      <<Flag(1), NotANumber, Flag(0), Flag(0)>> }

MetaFields ==
    { [flags |-> fl, sr |-> Num(1000), tt |-> Num(5)] : fl \in FlagSets }
    \cup { [flags |-> <<Flag(1), Flag(1), Flag(0), Flag(0)>>, sr |-> NotANumber,
            tt |-> Num(5)],
           [flags |-> <<Flag(1), Flag(1), Flag(0), Flag(0)>>, sr |-> Num(1000),
            tt |-> NotANumber],
           [flags |-> <<Flag(1), Flag(1), Flag(0), Flag(0)>>, sr |-> Num(0),
            tt |-> Num(5)] }

\* The metadata the instrument repeats in the packets of a transfer: that of
\* the packet at offset 0, and a different one in the packets after it.
HeadMeta == [flags |-> <<Flag(1), Flag(1), Flag(0), Flag(0)>>,
             sr |-> Num(1000), tt |-> Num(5)]
TailMeta == [flags |-> <<Flag(1), Flag(0), Flag(0), Flag(0)>>,
             sr |-> Num(2000), tt |-> Num(0)]

Totals == {2 * block_len, 4 * block_len}
Offsets == {0, block_len, 2 * block_len}
PayloadLens == {block_len, 2 * block_len}

Frame(n, marker, hdr, this_len, total_smpls, cur_pos, mf, seed) ==
    [n |-> n, marker |-> marker, hdr |-> hdr, this_len |-> this_len,
     total_smpls |-> total_smpls, cur_pos |-> cur_pos,
     flags |-> mf.flags, sr |-> mf.sr, tt |-> mf.tt, seed |-> seed]

\* Frames that carry a payload of len bytes after the 128-byte header, at
\* every offset and of every length.
PlainFrames ==
    { Frame(end_of_meta + len, TRUE, TRUE, len, tot, pos,
            IF pos = 0 THEN HeadMeta ELSE TailMeta, 0) :
        len \in PayloadLens, tot \in Totals, pos \in Offsets }

\* Frames of transfers sent in order in chunks of two blocks, with every
\* metadata region.
MetaFrames ==
    { Frame(end_of_meta + 2 * block_len, TRUE, TRUE, 2 * block_len, tot, pos,
            mf, 1) :
        tot \in Totals, pos \in {0, 2 * block_len}, mf \in MetaFields }

\* Frames whose declared chunk length differs from the number of bytes they
\* carry after the header: more bytes than declared, and fewer.
MisdeclaredFrames ==
    { Frame(end_of_meta + 2 * block_len, TRUE, TRUE, block_len,
            2 * block_len, 0, HeadMeta, 0),
      Frame(end_of_meta + block_len, TRUE, TRUE, 2 * block_len,
            2 * block_len, 0, HeadMeta, 0) }

\* A response cut one byte before the end of the 128-byte header.
ShortFrame ==
    Frame(end_of_meta - 1, TRUE, TRUE, block_len, 2 * block_len, 0,
          HeadMeta, 0)

\* A response without the '#9' marker, and one that declares chunk length 0.
UnmarkedFrame ==
    Frame(end_of_meta, FALSE, TRUE, 0, 0, 0, HeadMeta, 0)
ZeroLenFrame ==
    Frame(end_of_meta, TRUE, TRUE, 0, 2 * block_len, 0, HeadMeta, 0)

Frames ==
    PlainFrames \cup MetaFrames \cup MisdeclaredFrames
        \cup {ShortFrame, UnmarkedFrame, ZeroLenFrame}

\* Replies to the :CHANnel<ch>:OFFSet? / :SCALe? queries, as float() reads them.
Replies == {Num(1), NotANumber}

\* ------------------------------------------------------------- readPacket
\* The closure state of readPacket (the nonlocal variables, the observer's
\* log and the record of frames that reached the copy loop) as one record.
Locals(t) ==
    [total |-> samples_total[t], data |-> samples_data[t],
     got |-> samples_got[t], meta |-> meta[t], progress |-> progress[t],
     pkts |-> pkts[t], last_resp |-> last_resp[t], out |-> "", exc |-> ""]

Zeros(n) == [i \in 1..n |-> 0]

\* Lines 95-96: how many of the cur_len payload bytes are stored before the
\* loop ends or samples_data[cur_pos + i] raises IndexError.  A bytearray of
\* length L accepts the indices -L .. L-1.
WriteCount(L, cur_pos, cur_len) ==
    IF cur_len <= 0 THEN 0
    ELSE IF cur_pos >= L \/ cur_pos < -L THEN 0
    ELSE Min(cur_len, L - cur_pos)

\* Faulty variant of CopyPayload: the write offset ignored (samples_data[i]
\* for samples_data[cur_pos + i]).
CopyPayloadAtZero(data, cur_pos, k, seed) ==
    [j \in 1..Len(data) |->
        IF (j - 1) \in 0..(k - 1) THEN PayloadByte(seed, j - 1) ELSE data[j]]
\* Lines 95-96: the buffer after the first k payload bytes were stored at
\* cur_pos, cur_pos+1, ...; a negative index counts from the end, and of two
\* stores to one cell the later (larger i) stays.
CopyPayload(data, cur_pos, k, seed) ==
    [j \in 1..Len(data) |->
        LET i1 == (j - 1) - cur_pos
            i2 == (j - 1) - Len(data) - cur_pos
        IN  IF i1 \in 0..(k - 1) THEN PayloadByte(seed, i1)
            ELSE IF i2 \in 0..(k - 1) THEN PayloadByte(seed, i2)
            ELSE data[j]]

\* App.update_progress (lines 322-327): current / total raises
\* ZeroDivisionError when total is 0.
update_progress_raises(current, total) == total = 0

\* Faulty variant of ReceivedAfter: the payload length taken off the count.
ReceivedAfterLess(got, cur_len) == got - cur_len
\* Line 97: samples_got += cur_len.
ReceivedAfter(got, cur_len) == got + cur_len

\* Faulty variant of TransferComplete: complete as soon as bytes were counted.
TransferCompleteAnyData(got, total) == got > 0
\* Line 103: return samples_got == samples_total.
TransferComplete(got, total) == got = total

\* Faulty variant of PayloadLen: the chunk length the header declares.
DeclaredLen(f) == f.this_len
\* Line 94: cur_len = len(inp) - end_of_meta.
PayloadLen(f) == f.n - end_of_meta

\* Faulty variant of FirstPacket: every packet taken as the first.
FirstPacketAlways(total) == TRUE
\* Line 86: samples_total == -1, no packet of this transfer accepted so far.
FirstPacket(total) == total = -1

\* Lines 67-103 after read_raw returned frame f.  out is "True" or "False"
\* (the value returned to the while loop) or "raise" with exc the exception.
readPacket(st, f) ==
    IF f.n < 2
    THEN [st EXCEPT !.out = "raise", !.exc = "IndexError",
                    !.last_resp = "invalid"]
    ELSE IF ~f.marker
    THEN [st EXCEPT !.out = "False", !.last_resp = "malformed"]
    ELSE IF ~f.hdr
    THEN [st EXCEPT !.out = "raise", !.exc = "ValueError",
                    !.last_resp = "invalid"]
    ELSE IF f.this_len = 0
    THEN [st EXCEPT !.out = "False", !.last_resp = "zero"]
    ELSE
    LET first == FirstPacket(st.total) IN
    IF first /\ f.total_smpls < 0
    THEN [st EXCEPT !.out = "raise", !.exc = "ValueError",
                    !.total = f.total_smpls, !.last_resp = "invalid"]
    ELSE IF ~first /\ st.total # f.total_smpls
    THEN [st EXCEPT !.out = "False", !.last_resp = "mismatch"]
    ELSE
    LET total1 == IF first THEN f.total_smpls ELSE st.total
        data1 == IF first THEN Zeros(f.total_smpls) ELSE st.data
        meta1 == IF first THEN MetaOf(f.n, f.flags, f.sr, f.tt) ELSE st.meta
        cur_len == PayloadLen(f)
        k == WriteCount(Len(data1), f.cur_pos, cur_len)
        data2 == CopyPayload(data1, f.cur_pos, k, f.seed)
        pkts2 == Append(st.pkts, [cur_pos |-> f.cur_pos, cur_len |-> cur_len,
                                  seed |-> f.seed, copied |-> k,
                                  total |-> total1, n |-> f.n,
                                  this_len |-> f.this_len])
        got2 == ReceivedAfter(st.got, cur_len)
        copied == [st EXCEPT !.total = total1, !.data = data2, !.meta = meta1,
                             !.pkts = pkts2, !.last_resp = "data"]
    IN  IF cur_len > 0 /\ k < cur_len
        THEN [copied EXCEPT !.out = "raise", !.exc = "IndexError"]
        ELSE LET told == [copied EXCEPT !.got = got2,
                            !.progress = Append(@, <<got2, total1>>)]
             IN  IF update_progress_raises(got2, total1)
                 THEN [told EXCEPT !.out = "raise", !.exc = "ZeroDivisionError"]
                 ELSE [told EXCEPT !.out = IF TransferComplete(got2, total1)
                                           THEN "True" ELSE "False"]

\* ------------------------------------------------------ get_waveform steps
\* Lines 152-154: any exception ends the activation with (None, None).
Raise(t, e) ==
    /\ gw' = [gw EXCEPT ![t] = "returned"]
    /\ ret' = [ret EXCEPT ![t] = NoneNone]
    /\ exc' = [exc EXCEPT ![t] = e]

StoreLocals(t, st) ==
    /\ samples_total' = [samples_total EXCEPT ![t] = st.total]
    /\ samples_data' = [samples_data EXCEPT ![t] = st.data]
    /\ samples_got' = [samples_got EXCEPT ![t] = st.got]
    /\ meta' = [meta EXCEPT ![t] = st.meta]
    /\ progress' = [progress EXCEPT ![t] = st.progress]
    /\ pkts' = [pkts EXCEPT ![t] = st.pkts]
    /\ last_resp' = [last_resp EXCEPT ![t] = st.last_resp]

localVars == <<samples_total, samples_data, samples_got, meta, progress,
               pkts, last_resp>>

\* Lines 57-64: entry of get_waveform(c).
CallGetWaveform(t, c) ==
    /\ gw' = [gw EXCEPT ![t] = "write"]
    /\ ch' = [ch EXCEPT ![t] = c]
    /\ samples_data' = [samples_data EXCEPT ![t] = <<>>]
    /\ samples_total' = [samples_total EXCEPT ![t] = -1]
    /\ samples_got' = [samples_got EXCEPT ![t] = 0]
    /\ meta' = [meta EXCEPT ![t] = NoMeta]
    /\ samples' = [samples EXCEPT ![t] = <<>>]
    /\ cal' = [cal EXCEPT ![t] = NoCal]
    /\ ret' = [ret EXCEPT ![t] = NoneNone]
    /\ exc' = [exc EXCEPT ![t] = ""]
    /\ progress' = [progress EXCEPT ![t] = <<>>]
    /\ pkts' = [pkts EXCEPT ![t] = <<>>]
    /\ last_resp' = [last_resp EXCEPT ![t] = ""]

\* Line 70: self._osci.write("PRIVate:WAVeform:DATA:ALL?\n").
ReadPacketWrite(t) ==
    /\ gw[t] = "write"
    /\ IF osci = "None"
       THEN Raise(t, "AttributeError")
       ELSE /\ gw' = [gw EXCEPT ![t] = "read"]
            /\ UNCHANGED <<ret, exc>>
    /\ held' = held \ {t}
    /\ UNCHANGED <<osci, ch, localVars, samples, cal, appVars>>

\* Lines 71-103 and the loop test of line 106, for the frame f read_raw
\* returns; self._osci.read_raw raises AttributeError when the session was
\* set to None between the write and the read.
ReadPacketRead(t, f) ==
    /\ gw[t] = "read"
    /\ IF osci = "None"
       THEN Raise(t, "AttributeError") /\ UNCHANGED localVars
       ELSE LET st == readPacket(Locals(t), f) IN
            /\ Len(st.pkts) <= MaxPackets
            /\ StoreLocals(t, st)
            /\ IF st.out = "raise"
               THEN Raise(t, st.exc)
               ELSE /\ gw' = [gw EXCEPT ![t] = IF st.out = "True" THEN "decode"
                                               ELSE "write"]
                    /\ UNCHANGED <<ret, exc>>
    /\ held' = held \ {t}
    /\ UNCHANGED <<osci, ch, samples, cal, appVars>>

\* Line 71 when read_raw raises (transport timeout or I/O failure).
ReadPacketFail(t) ==
    /\ gw[t] = "read"
    /\ osci # "None"
    /\ Raise(t, "VisaIOError")
    /\ held' = held \ {t}
    /\ UNCHANGED <<osci, ch, localVars, samples, cal, appVars>>

\* Faulty variant of channel_count: one channel assumed when no flag is set.
ChannelCountAtLeastOne(m) ==
    Max(1, m.flags[1].val + m.flags[2].val + m.flags[3].val + m.flags[4].val)
\* Line 117: sum of int() of the four channel-enabled bytes.
channel_count(m) ==
    m.flags[1].val + m.flags[2].val + m.flags[3].val + m.flags[4].val

\* Line 136: the values range((c-1)*block_len, L, block_len*cc) yields.
NumBlocks(L, c, cc) ==
    IF L <= (c - 1) * block_len THEN 0
    ELSE ((L - (c - 1) * block_len - 1) \div (block_len * cc)) + 1

\* Line 137: struct.unpack('%db' % block_len, ...) needs a full block.
BlocksComplete(L, c, cc) ==
    \A j \in 0..(NumBlocks(L, c, cc) - 1) :
        (c - 1) * block_len + j * block_len * cc + block_len <= L

\* Faulty variant of Extract: the bytes taken as unsigned.
ExtractUnsigned(data, c, cc) ==
    [m \in 1..(NumBlocks(Len(data), c, cc) * block_len) |->
        SignedAsUnsigned(data[(c - 1) * block_len
               + ((m - 1) \div block_len) * block_len * cc
               + ((m - 1) % block_len) + 1])]
\* Lines 134-137: the samples of channel c.
Extract(data, c, cc) ==
    [m \in 1..(NumBlocks(Len(data), c, cc) * block_len) |->
        Signed(data[(c - 1) * block_len
               + ((m - 1) \div block_len) * block_len * cc
               + ((m - 1) % block_len) + 1])]

\* Lines 110-137: decode the metadata and extract the channel.
Decode(t) ==
    /\ gw[t] = "decode"
    /\ LET m == meta[t] IN
       IF m.len # MetaSize
       THEN Raise(t, "struct.error") /\ UNCHANGED <<samples, cal>>
       ELSE IF \E i \in 1..4 : ~m.flags[i].ok
       THEN Raise(t, "ValueError") /\ UNCHANGED <<samples, cal>>
       ELSE IF ~m.sr.ok
       THEN Raise(t, "ValueError") /\ UNCHANGED <<samples, cal>>
       ELSE
       LET cc == channel_count(m)
           tt == IF m.tt.ok THEN m.tt.val ELSE 0
           L == Len(samples_data[t])
       IN  IF cc = 0
           THEN Raise(t, "ValueError") /\ UNCHANGED <<samples, cal>>
           ELSE IF ~BlocksComplete(L, ch[t], cc)
           THEN Raise(t, "struct.error") /\ UNCHANGED <<samples, cal>>
           ELSE /\ samples' = [samples EXCEPT
                                 ![t] = Extract(samples_data[t], ch[t], cc)]
                /\ cal' = [cal EXCEPT ![t] = [sr |-> m.sr.val, tt |-> tt,
                                              offset |-> 0]]
                /\ gw' = [gw EXCEPT ![t] = "q_offset"]
                /\ UNCHANGED <<ret, exc>>
    /\ UNCHANGED <<osci, held, ch, localVars, appVars>>

\* Line 140: offset = float(self._osci.query(':CHANnel<ch>:OFFSet?')).
QueryOffset(t, reply) ==
    /\ gw[t] = "q_offset"
    /\ IF osci = "None" THEN Raise(t, "AttributeError") /\ UNCHANGED cal
       ELSE IF ~reply.ok THEN Raise(t, "ValueError") /\ UNCHANGED cal
       ELSE /\ cal' = [cal EXCEPT ![t].offset = reply.val]
            /\ gw' = [gw EXCEPT ![t] = "q_scale"]
            /\ UNCHANGED <<ret, exc>>
    /\ held' = held \ {t}
    /\ UNCHANGED <<osci, ch, localVars, samples, appVars>>

\* Lines 141-150: the scale query, the voltage and time arrays, the return.
QueryScale(t, reply) ==
    /\ gw[t] = "q_scale"
    /\ IF osci = "None" THEN Raise(t, "AttributeError")
       ELSE IF ~reply.ok THEN Raise(t, "ValueError")
       ELSE IF cal[t].sr = 0 /\ Len(samples[t]) > 0
       THEN Raise(t, "ZeroDivisionError")
       ELSE /\ gw' = [gw EXCEPT ![t] = "returned"]
            /\ ret' = [ret EXCEPT ![t] = Waveform(samples[t], reply.val,
                                   cal[t].offset, cal[t].sr, cal[t].tt)]
            /\ UNCHANGED exc
    /\ held' = held \ {t}
    /\ UNCHANGED <<osci, ch, localVars, samples, cal, appVars>>

\* Lines 140-141 when the query raises (transport timeout or I/O failure).
QueryFail(t) ==
    /\ gw[t] \in {"q_offset", "q_scale"}
    /\ osci # "None"
    /\ Raise(t, "VisaIOError")
    /\ held' = held \ {t}
    /\ UNCHANGED <<osci, ch, localVars, samples, cal, appVars>>

\* The positions of get_waveform at a call on self._osci (lines 70, 71, 140
\* and 141).
SessionCalls == {"write", "read", "q_offset", "q_scale"}

\* The call of lines 70, 71, 140 or 141 made on the session object the caller
\* got from self._osci before disconnect() closed it: the closed session
\* raises.
StaleCall(t) ==
    /\ gw[t] \in SessionCalls
    /\ t \in held
    /\ Raise(t, "InvalidSession")
    /\ held' = held \ {t}
    /\ UNCHANGED <<osci, ch, localVars, samples, cal, appVars>>

\* One step of the activation of caller t, with the transport answering
\* packet requests from the frame set F and the queries from R.
GetWaveformStep(t, F, R) ==
    \/ ReadPacketWrite(t)
    \/ \E f \in F : ReadPacketRead(t, f)
    \/ Decode(t)
    \/ \E r \in R : QueryOffset(t, r)
    \/ \E r \in R : QueryScale(t, r)

\* The transport fails under the activation of caller t.
TransportFault(t) == ReadPacketFail(t) \/ QueryFail(t)

\* --------------------------------------------------------------- decoder
\* HantekDSO2000 connected and driven by one direct caller: the state right
\* after the entry of get_waveform(c) (lines 57-64).
Channels == {1, 2}

Init ==
    /\ osci = "open"
    /\ held = {}
    /\ gw = [t \in Callers |-> IF t = UI THEN "write" ELSE "none"]
    /\ ch \in [Callers -> Channels]
    /\ \A t \in LoopThreads : ch[t] = 1
    /\ samples_data = [t \in Callers |-> <<>>]
    /\ samples_total = [t \in Callers |-> -1]
    /\ samples_got = [t \in Callers |-> 0]
    /\ meta = [t \in Callers |-> NoMeta]
    /\ samples = [t \in Callers |-> <<>>]
    /\ cal = [t \in Callers |-> NoCal]
    /\ ret = [t \in Callers |-> NoneNone]
    /\ exc = [t \in Callers |-> ""]
    /\ progress = [t \in Callers |-> <<>>]
    /\ pkts = [t \in Callers |-> <<>>]
    /\ last_resp = [t \in Callers |-> ""]
    /\ is_connected = TRUE
    /\ is_running = FALSE
    /\ btn_cont = "normal"
    /\ task = [t \in Callers |-> "none"]
    /\ lp = [t \in LoopThreads |-> "new"]
    /\ fetched = [t \in Callers |-> <<>>]
    /\ stopped = {}

Next == GetWaveformStep(UI, Frames, Replies) \/ TransportFault(UI)

Spec == Init /\ [][Next]_vars

\* The caller's thread keeps running: a blocked or looping get_waveform is
\* never starved of the processor.
FairSpec == Spec /\ WF_vars(Next)

\* ------------------------------------------------------------------- App
\* The Tk main thread (UI) runs one handler at a time; the loop threads run
\* loop_capture.  Every caller of get_waveform goes through update_plot or
\* save_data_csv, which fetch channel 1 and then channel 2.

\* Responses of the instrument while the App drives it: a transfer that
\* one packet completes, and the not-ready answer.
AppFrames ==
    { Frame(end_of_meta + 2 * block_len, TRUE, TRUE, 2 * block_len,
            2 * block_len, 0, HeadMeta, 0),
      ZeroLenFrame }
AppReplies == {Num(1)}

Idle(t) == task[t] = "none"

\* The loop_capture threads started (line 367) and not yet ended.
Started == {t \in LoopThreads : lp[t] \in {"test", "body"}}

\* Locals of a finished activation go out of scope when the caller takes
\* the returned pair.
ReleaseLocals(t) ==
    /\ gw' = [gw EXCEPT ![t] = "none"]
    /\ samples_data' = [samples_data EXCEPT ![t] = <<>>]
    /\ samples_total' = [samples_total EXCEPT ![t] = -1]
    /\ samples_got' = [samples_got EXCEPT ![t] = 0]
    /\ meta' = [meta EXCEPT ![t] = NoMeta]
    /\ samples' = [samples EXCEPT ![t] = <<>>]
    /\ cal' = [cal EXCEPT ![t] = NoCal]
    /\ ret' = [ret EXCEPT ![t] = NoneNone]
    /\ exc' = [exc EXCEPT ![t] = ""]
    /\ progress' = [progress EXCEPT ![t] = <<>>]
    /\ pkts' = [pkts EXCEPT ![t] = <<>>]
    /\ last_resp' = [last_resp EXCEPT ![t] = ""]

\* Lines 300-314: "Conectar" with a resource selected.  connect() stores the
\* opened resource before the *IDN? query, so a failing query leaves it set.
Connect(ok, opened) ==
    /\ Idle(UI)
    /\ ~is_connected
    /\ IF ok
       THEN osci' = "open" /\ is_connected' = TRUE
       ELSE osci' = (IF opened THEN "open" ELSE osci) /\ UNCHANGED is_connected
    /\ UNCHANGED <<held, decoderVars, is_running, btn_cont, task, lp, fetched,
                   stopped>>

\* Lines 315-320 and 33-39: "Desconectar".  A caller that is at a call on
\* self._osci may have evaluated self._osci before close() and make the call
\* after it.
Disconnect ==
    /\ Idle(UI)
    /\ is_connected
    /\ is_running' = FALSE
    /\ btn_cont' = "normal"
    /\ osci' = "None"
    /\ is_connected' = FALSE
    /\ stopped' = stopped \cup Started
    /\ held' = held \cup {t \in Callers : gw[t] \in SessionCalls}
    /\ UNCHANGED <<decoderVars, task, lp, fetched>>

toggle_connection == Disconnect \/ \E ok, opened \in BOOLEAN : Connect(ok, opened)

\* Lines 329-344: entry of update_plot by caller t.
EnterUpdatePlot(t) ==
    /\ task' = [task EXCEPT ![t] = "update_plot"]
    /\ fetched' = [fetched EXCEPT ![t] = <<>>]

\* "Capturar": update_plot on the main thread.
Capturar ==
    /\ Idle(UI)
    /\ is_connected
    /\ EnterUpdatePlot(UI)
    /\ UNCHANGED <<osci, held, decoderVars, is_connected, is_running, btn_cont,
                   lp, stopped>>

\* Lines 384-407: "Guardar CSV" with a path chosen in the dialog.
save_data_csv ==
    /\ Idle(UI)
    /\ is_connected
    /\ task' = [task EXCEPT ![UI] = "save_csv"]
    /\ fetched' = [fetched EXCEPT ![UI] = <<>>]
    /\ UNCHANGED <<osci, held, decoderVars, is_connected, is_running, btn_cont,
                   lp, stopped>>

\* Lines 348-349 and 409: the first get_waveform call of the task.
FetchCall(t) ==
    /\ task[t] \in {"update_plot", "save_csv"}
    /\ gw[t] = "none"
    /\ Len(fetched[t]) = 0
    /\ CallGetWaveform(t, 1)
    /\ UNCHANGED <<osci, held, appVars>>

\* Lines 349-352 and 409-414: the caller takes the pair returned for
\* channel 1 and calls get_waveform(2).
FetchNext(t) ==
    /\ task[t] \in {"update_plot", "save_csv"}
    /\ gw[t] = "returned"
    /\ Len(fetched[t]) = 0
    /\ fetched' = [fetched EXCEPT ![t] = Append(@, ret[t])]
    /\ CallGetWaveform(t, 2)
    /\ UNCHANGED <<osci, held, is_connected, is_running, btn_cont, task, lp,
                   stopped>>

\* Lines 349-360 and 414-438: the caller takes the pair returned for
\* channel 2 and finishes the handler; loop_capture then sleeps (line 382).
TaskEnd(t) ==
    /\ task[t] \in {"update_plot", "save_csv"}
    /\ gw[t] = "returned"
    /\ Len(fetched[t]) = 1
    /\ fetched' = [fetched EXCEPT ![t] = Append(@, ret[t])]
    /\ ReleaseLocals(t)
    /\ task' = [task EXCEPT ![t] = "none"]
    /\ lp' = IF t \in LoopThreads THEN [lp EXCEPT ![t] = "test"] ELSE lp
    /\ UNCHANGED <<osci, held, ch, is_connected, is_running, btn_cont, stopped>>

\* Lines 362-367: "Continuo" (the button can be pressed while enabled).
toggle_continuous(t) ==
    /\ Idle(UI)
    /\ btn_cont = "normal"
    /\ is_connected
    /\ lp[t] \in {"new", "dead"}
    /\ is_running' = TRUE
    /\ btn_cont' = "disabled"
    /\ lp' = [lp EXCEPT ![t] = "test"]
    /\ UNCHANGED <<osci, held, decoderVars, is_connected, task, fetched,
                   stopped>>

\* Lines 369-371: "Parar".
stop_continuous ==
    /\ Idle(UI)
    /\ is_running' = FALSE
    /\ btn_cont' = "normal"
    /\ stopped' = stopped \cup Started
    /\ UNCHANGED <<osci, held, decoderVars, is_connected, task, lp, fetched>>

\* Lines 373-377: "Desbloquear".
unlock_button ==
    /\ Idle(UI)
    /\ is_running' = FALSE
    /\ btn_cont' = "normal"
    /\ stopped' = stopped \cup Started
    /\ UNCHANGED <<osci, held, decoderVars, is_connected, task, lp, fetched>>

\* Lines 379-382: the while test of loop_capture and the entry of
\* update_plot, which returns at once when not connected (the thread then
\* sleeps and tests again).
LoopTest(t) ==
    /\ lp[t] = "test"
    /\ IF ~is_running
       THEN /\ lp' = [lp EXCEPT ![t] = "dead"]
            /\ stopped' = stopped \ {t}
            /\ UNCHANGED <<task, fetched>>
       ELSE IF ~is_connected
       THEN UNCHANGED <<lp, task, fetched, stopped>>
       ELSE /\ lp' = [lp EXCEPT ![t] = "body"]
            /\ EnterUpdatePlot(t)
            /\ UNCHANGED stopped
    /\ UNCHANGED <<osci, held, decoderVars, is_connected, is_running, btn_cont>>

\* A step of caller t's own thread inside update_plot / save_data_csv.
TaskStep(t, F, R) ==
    \/ FetchCall(t)
    \/ GetWaveformStep(t, F, R)
    \/ StaleCall(t)
    \/ FetchNext(t)
    \/ TaskEnd(t)

ThreadStep(t) ==
    \/ TaskStep(t, AppFrames, AppReplies)
    \/ (t \in LoopThreads /\ LoopTest(t))

\* A button pressed by the user.
UserStep ==
    \/ toggle_connection
    \/ Capturar
    \/ save_data_csv
    \/ \E t \in LoopThreads : toggle_continuous(t)
    \/ stop_continuous
    \/ unlock_button

\* The state after App.__init__ (lines 157-166).
AppInit ==
    /\ osci = "None"
    /\ held = {}
    /\ gw = [t \in Callers |-> "none"]
    /\ ch = [t \in Callers |-> 1]
    /\ samples_data = [t \in Callers |-> <<>>]
    /\ samples_total = [t \in Callers |-> -1]
    /\ samples_got = [t \in Callers |-> 0]
    /\ meta = [t \in Callers |-> NoMeta]
    /\ samples = [t \in Callers |-> <<>>]
    /\ cal = [t \in Callers |-> NoCal]
    /\ ret = [t \in Callers |-> NoneNone]
    /\ exc = [t \in Callers |-> ""]
    /\ progress = [t \in Callers |-> <<>>]
    /\ pkts = [t \in Callers |-> <<>>]
    /\ last_resp = [t \in Callers |-> ""]
    /\ is_connected = FALSE
    /\ is_running = FALSE
    /\ btn_cont = "normal"
    /\ task = [t \in Callers |-> "none"]
    /\ lp = [t \in LoopThreads |-> "new"]
    /\ fetched = [t \in Callers |-> <<>>]
    /\ stopped = {}

AppNext == UserStep \/ \E t \in Callers : ThreadStep(t)

AppSpec == AppInit /\ [][AppNext]_vars

\* Every started thread keeps being scheduled; the user need not press
\* anything.
FairAppSpec == AppSpec /\ \A t \in Callers : WF_vars(ThreadStep(t))

\* ================================================================= claims
\* ---- helpers of the claims' formulas
InLoop(t) == gw[t] \in {"write", "read"}
PastLoop(t) == gw[t] \in {"decode", "q_offset", "q_scale", "returned"}

PktCells(p) == p.cur_pos .. (p.cur_pos + p.cur_len - 1)

\* The frames that reached the copy loop declare one total, lie inside
\* [0, T), are pairwise disjoint and together cover [0, T).
DisjointCover(ps, T) ==
    /\ Len(ps) > 0
    /\ \A k \in 1..Len(ps) :
          /\ ps[k].total = T
          /\ ps[k].cur_len >= 0
          /\ ps[k].cur_pos >= 0
          /\ ps[k].cur_pos + ps[k].cur_len <= T
    /\ \A k, l \in 1..Len(ps) : k < l => PktCells(ps[k]) \cap PktCells(ps[l]) = {}
    /\ UNION { PktCells(ps[k]) : k \in 1..Len(ps) } = 0..(T - 1)

RECURSIVE SumLens(_, _)
SumLens(ps, k) == IF k = 0 THEN 0 ELSE SumLens(ps, k - 1) + ps[k].cur_len

\* C1: reassembly completeness.  When the frames accepted so far (each a
\* full frame with a payload region) declare the same total T and carry
\* payloads at pairwise disjoint offsets covering [0, T), the packet loop has
\* ended, the buffer holds every payload at its write offset, and the
\* observer got the cumulative counts in packet order, the last one T.
ReassemblyComplete ==
    \A t \in Callers :
        DisjointCover(pkts[t], samples_total[t]) =>
            /\ PastLoop(t)
            /\ Len(samples_data[t]) = samples_total[t]
            /\ \A k \in 1..Len(pkts[t]) : \A i \in 0..(pkts[t][k].cur_len - 1) :
                  samples_data[t][pkts[t][k].cur_pos + i + 1]
                      = PayloadByte(pkts[t][k].seed, i)
            /\ Len(progress[t]) = Len(pkts[t])
            /\ \A k \in 1..Len(pkts[t]) :
                  progress[t][k] = <<SumLens(pkts[t], k), samples_total[t]>>
            /\ progress[t][Len(progress[t])][1] = samples_total[t]

\* Three packets, not in offset order, complete a transfer.
ReassemblyWitness ==
    /\ gw[UI] = "decode"
    /\ Len(pkts[UI]) = 3
    /\ DisjointCover(pkts[UI], 4 * block_len)
    /\ pkts[UI][1].cur_pos # 0
    /\ progress[UI][3] = <<4 * block_len, 4 * block_len>>

\* C2: mismatch detection is terminal.  Once a packet declaring another
\* total_samples than the first was read, the loop requests no further
\* packet for that transfer.
MismatchIsTerminal ==
    [][\A t \in Callers :
          (gw[t] = "write" /\ last_resp[t] = "mismatch") => gw'[t] # "read"]_vars

\* C3: framing failure is terminal.  Once a response without the '#9'
\* marker was read, the loop requests no further packet.
MalformedIsTerminal ==
    [][\A t \in Callers :
          (gw[t] = "write" /\ last_resp[t] = "malformed") => gw'[t] # "read"]_vars

\* Some request of the activation was answered by something else than a
\* zero-length chunk.
AnsweredOtherwise(t) ==
    \/ last_resp[t] \notin {"", "zero"}
    \/ exc[t] \in {"VisaIOError", "AttributeError"}

\* C4: bounded retry.  Unless the transport at some point answers with
\* something else than a zero-length chunk, get_waveform eventually returns
\* with a Timeout outcome.
ZeroChunksTimeOut ==
    <>(AnsweredOtherwise(UI) \/ (gw[UI] = "returned" /\ exc[UI] = "Timeout"))

\* ---- channel demultiplexing
MetaDecodable(m) == m.len = MetaSize /\ \A i \in 1..4 : m.flags[i].ok

DemuxPre(t) ==
    /\ PastLoop(t)
    /\ MetaDecodable(meta[t])
    /\ channel_count(meta[t]) >= 1
    /\ ch[t] \in 1..channel_count(meta[t])
    /\ Len(samples_data[t]) % (block_len * channel_count(meta[t])) = 0

\* The channel has been extracted (lines 134-137 completed).
Extracted(t) ==
    \/ gw[t] \in {"q_offset", "q_scale"}
    \/ gw[t] = "returned" /\ ~ret[t].none

\* b read as a signed 8-bit value.
IsSignedOf(v, b) == v \in -128..127 /\ (v - b) % 256 = 0

\* C5: channel demux correctness.  For a buffer whose length is a multiple
\* of block_len * enabled_channel_count and 1 <= ch <= enabled_channel_count,
\* extraction does not fail on the block layout, and the extracted samples
\* are the bytes of the blocks [(ch-1)*block_len + j*block_len*count,
\* +block_len), j = 0, 1, ..., in ascending j, each read as signed 8-bit.
DemuxCorrect ==
    \A t \in Callers :
        DemuxPre(t) =>
            /\ exc[t] # "struct.error"
            /\ Extracted(t) =>
                 LET cc == channel_count(meta[t])
                     rounds == Len(samples_data[t]) \div (block_len * cc)
                 IN  /\ Len(samples[t]) = rounds * block_len
                     /\ \A j \in 0..(rounds - 1) : \A o \in 0..(block_len - 1) :
                           IsSignedOf(samples[t][j * block_len + o + 1],
                                      samples_data[t][(ch[t] - 1) * block_len
                                          + j * block_len * cc + o + 1])

\* Two channels, two rounds: channel 1 gets blocks 0 and 2, some sample
\* negative.
DemuxWitness ==
    /\ gw[UI] = "q_offset"
    /\ DemuxPre(UI)
    /\ channel_count(meta[UI]) = 2
    /\ ch[UI] = 1
    /\ Len(samples_data[UI]) = 4 * block_len
    /\ Len(samples[UI]) = 2 * block_len
    /\ \E i \in 1..Len(samples[UI]) : samples[UI][i] < 0

\* C6: buffer bounds.  Every frame from which at least one payload byte was
\* copied into the buffer satisfies write_offset + payload_length <=
\* total_samples.
BufferBounds ==
    \A t \in Callers : \A k \in 1..Len(pkts[t]) :
        pkts[t][k].copied > 0 =>
            pkts[t][k].cur_pos + pkts[t][k].cur_len <= pkts[t][k].total

\* Lines 152-154: the failure kind the returned pair carries.  The handler
\* returns (None, None) for every exception, so the pair carries none.
FailureKindOf(r) == ""

\* C10: no swallowed errors.  A failed channel fetch returns an outcome that
\* identifies the failure kind.
NoSwallowedErrors ==
    \A t \in Callers :
        (gw[t] = "returned" /\ exc[t] # "") => FailureKindOf(ret[t]) = exc[t]

\* ---- the App's callers
Fetching(t) == gw[t] \in {"write", "read", "decode", "q_offset", "q_scale"}
Alive(t) == lp[t] \in {"test", "body"}

\* C7: single driver per session.  At most one execution of get_waveform is
\* in progress on the shared session, and at most one loop_capture thread is
\* alive.
SingleDriver ==
    /\ Cardinality({t \in Callers : Fetching(t)}) <= 1
    /\ Cardinality({t \in LoopThreads : Alive(t)}) <= 1

\* C8: cancellation between packet reads.  Once stop_continuous has cleared
\* is_running during a loop thread's capture cycle, the packet loop of that
\* thread, having read a response, requests no further packet.
AbortStopsRequests ==
    [][\A t \in LoopThreads :
          (~is_running /\ lp[t] = "body" /\ gw[t] = "write"
              /\ last_resp[t] # "")
          => gw'[t] # "read"]_vars

\* The fetch of channel 1 of caller t's task has met a failure: a response
\* of a failing kind was read, or the activation ended with an exception.
Ch1Failed(t) ==
    /\ task[t] # "none"
    /\ Len(fetched[t]) = 0
    /\ \/ InLoop(t) /\ last_resp[t] \in {"malformed", "zero", "mismatch"}
       \/ gw[t] = "returned" /\ exc[t] # ""

Ch2Attempted(t) == task[t] # "none" /\ Len(fetched[t]) = 1 /\ ch[t] = 2

\* C9: per-channel failure isolation.  Whenever the fetch of channel 1
\* fails, the fetch of channel 2 is eventually attempted.
FailureIsolation == \A t \in Callers : Ch1Failed(t) ~> Ch2Attempted(t)

\* ---- metadata validation
\* C11: invalid metadata fails fast.  When the sampling-rate field or the
\* trigger-time-offset field of the captured metadata does not parse as a
\* number, the activation fails: no channel is extracted, no value is put in
\* the field's place and no waveform is returned.
InvalidMetadataFails ==
    \A t \in Callers :
        (PastLoop(t) /\ MetaDecodable(meta[t])
            /\ (~meta[t].sr.ok \/ ~meta[t].tt.ok))
        => ~Extracted(t)

\* C12: channel index range.  With at least one channel enabled, a request
\* for a channel above the enabled channel count fails: no samples are
\* extracted from the blocks of the enabled channels and no waveform is
\* returned.
ChannelIndexChecked ==
    \A t \in Callers :
        (PastLoop(t) /\ MetaDecodable(meta[t])
            /\ channel_count(meta[t]) >= 1
            /\ ch[t] > channel_count(meta[t]))
        => ~Extracted(t)

\* The four channel-enabled flags parse and none is set.
NoFlagSet(m) ==
    /\ m.len = MetaSize
    /\ \A i \in 1..4 : m.flags[i].ok /\ m.flags[i].val = 0

\* C13: no enabled channels.  When all four flags of the captured metadata
\* are unset, the activation ends in a failure for every requested channel
\* and every buffer length: nothing is extracted, neither the offset nor the
\* scale query is sent and no waveform is returned.
NoChannelsFails ==
    \A t \in Callers :
        (PastLoop(t) /\ NoFlagSet(meta[t])) =>
            /\ gw[t] \notin {"q_offset", "q_scale"}
            /\ samples[t] = <<>>
            /\ gw[t] = "returned" => (ret[t].none /\ exc[t] # "")

\* Channel 2 requested of a completed four-block transfer with no flag set.
NoChannelsWitness ==
    /\ gw[UI] = "returned"
    /\ NoFlagSet(meta[UI])
    /\ ch[UI] = 2
    /\ Len(samples_data[UI]) = 4 * block_len
    /\ samples_got[UI] = samples_total[UI]
    /\ exc[UI] = "ValueError"

\* ---- the packet loop
\* C14: first-packet fixing.  Once a packet of the transfer has been
\* accepted, no later step of the activation changes total_samples, the
\* length of the buffer or the captured metadata, whatever the later packets
\* carry.
FirstPacketFixes ==
    [][\A t \in Callers :
          (Fetching(t) /\ pkts[t] # <<>>) =>
              /\ samples_total'[t] = samples_total[t]
              /\ Len(samples_data'[t]) = Len(samples_data[t])
              /\ meta'[t] = meta[t]]_vars

\* A second packet was accepted whose metadata region (TailMeta) differs
\* from the one captured from the first packet (HeadMeta).
FirstPacketWitness ==
    /\ Len(pkts[UI]) = 2
    /\ pkts[UI][1].seed = 0 /\ pkts[UI][1].cur_pos = 0
    /\ pkts[UI][2].seed = 0 /\ pkts[UI][2].cur_pos # 0
    /\ meta[UI] = MetaOf(end_of_meta + pkts[UI][1].cur_len, HeadMeta.flags,
                         HeadMeta.sr, HeadMeta.tt)
    /\ samples_total[UI] = pkts[UI][1].total
    /\ Len(samples_data[UI]) = pkts[UI][1].total

\* The count the observer got for the k-th accepted packet, less the count
\* before it.
Counted(t, k) ==
    progress[t][k][1] - (IF k = 1 THEN 0 ELSE progress[t][k - 1][1])

\* The claim of C15 as worded: for every accepted packet whose copy ran to
\* its end, the bytes copied and the bytes added to the received count are
\* the chunk length the header declares.
DeclaredLengthHonoured ==
    \A t \in Callers : \A k \in 1..Len(progress[t]) :
        /\ pkts[t][k].copied = pkts[t][k].this_len
        /\ Counted(t, k) = pkts[t][k].this_len

\* C15: payload length.  For every accepted packet whose copy ran to its
\* end, the number added to the received count is the number of bytes the
\* response carries after offset 128 (its length less 128, negative for a
\* response shorter than the header), and the bytes copied are that many
\* (none for a shorter response), whatever chunk length the header declares.
CarriedLengthHonoured ==
    \A t \in Callers : \A k \in 1..Len(progress[t]) :
        /\ Counted(t, k) = pkts[t][k].n - end_of_meta
        /\ pkts[t][k].copied = Max(0, pkts[t][k].n - end_of_meta)

\* A frame declaring one block and carrying two was copied and counted.
CarriedLengthWitness ==
    /\ Len(progress[UI]) = 1
    /\ pkts[UI][1].this_len = block_len
    /\ pkts[UI][1].n = end_of_meta + 2 * block_len
    /\ pkts[UI][1].copied = 2 * block_len
    /\ samples_got[UI] = 2 * block_len
    /\ gw[UI] = "decode"

\* The packet loop of the activation has ended (readPacket returned
\* samples_got == samples_total, line 106) and its buffer is being decoded
\* or has been returned as a waveform.
Completed(t) ==
    \/ gw[t] \in {"decode", "q_offset", "q_scale"}
    \/ gw[t] = "returned" /\ ~ret[t].none

\* The buffer cells the k bytes copied from an accepted packet went to.
WrittenCells(p) == p.cur_pos .. (p.cur_pos + p.copied - 1)

\* The claim of C16 as worded: at completion every position of
\* [0, total_samples) has been written by some accepted packet, whatever the
\* sequence of accepted packets.
NoHolesAtCompletion ==
    \A t \in Callers :
        Completed(t) =>
            UNION { WrittenCells(pkts[t][k]) : k \in 1..Len(pkts[t]) }
                = 0..(samples_total[t] - 1)

\* The accepted packets are full frames whose payloads lie inside [0, T) at
\* pairwise disjoint positions.
DisjointInRange(ps, T) ==
    /\ \A k \in 1..Len(ps) :
          /\ ps[k].n >= end_of_meta
          /\ ps[k].cur_pos >= 0
          /\ ps[k].cur_pos + (ps[k].n - end_of_meta) <= T
    /\ \A k, l \in 1..Len(ps) :
          k < l => PktCells(ps[k]) \cap PktCells(ps[l]) = {}

\* C16: no holes at completion.  When the loop declares the transfer
\* complete and the accepted packets were full frames with payloads inside
\* [0, total_samples) at pairwise disjoint positions, every position of
\* [0, total_samples) has been written by one of them and holds the byte
\* that packet carried for it.
NoHolesIfDisjoint ==
    \A t \in Callers :
        (Completed(t) /\ DisjointInRange(pkts[t], samples_total[t])) =>
            /\ UNION { WrittenCells(pkts[t][k]) : k \in 1..Len(pkts[t]) }
                  = 0..(samples_total[t] - 1)
            /\ \A k \in 1..Len(pkts[t]) : \A i \in 0..(pkts[t][k].copied - 1) :
                  samples_data[t][pkts[t][k].cur_pos + i + 1]
                      = PayloadByte(pkts[t][k].seed, i)

\* Two packets, the later half first, complete a transfer of four blocks.
NoHolesWitness ==
    /\ gw[UI] = "decode"
    /\ Completed(UI)
    /\ DisjointInRange(pkts[UI], samples_total[UI])
    /\ samples_total[UI] = 4 * block_len
    /\ Len(pkts[UI]) = 2
    /\ pkts[UI][1].cur_pos = 2 * block_len
    /\ pkts[UI][2].cur_pos = 0

\* The claim of C17 as worded: after the first accepted packet the received
\* count stays within [0, total_samples], and so does every count passed to
\* the observer, whatever the sequence of accepted packets.
ReceivedBounded ==
    \A t \in Callers :
        pkts[t] # <<>> =>
            /\ 0 <= samples_got[t] /\ samples_got[t] <= samples_total[t]
            /\ \A k \in 1..Len(progress[t]) :
                  0 <= progress[t][k][1] /\ progress[t][k][1] <= progress[t][k][2]

\* C17: received count.  While the accepted packets are full frames with
\* payloads inside [0, total_samples) at pairwise disjoint positions, the
\* received count stays within [0, total_samples], and so does every count
\* passed to the observer.
ReceivedBoundedIfDisjoint ==
    \A t \in Callers :
        (pkts[t] # <<>> /\ DisjointInRange(pkts[t], samples_total[t])) =>
            /\ 0 <= samples_got[t] /\ samples_got[t] <= samples_total[t]
            /\ \A k \in 1..Len(progress[t]) :
                  0 <= progress[t][k][1] /\ progress[t][k][1] <= progress[t][k][2]

\* Two disjoint packets of a four-block transfer were counted and the loop
\* goes on.
ReceivedBoundedWitness ==
    /\ InLoop(UI)
    /\ Len(pkts[UI]) = 2
    /\ Len(progress[UI]) = 2
    /\ DisjointInRange(pkts[UI], samples_total[UI])
    /\ samples_total[UI] = 4 * block_len
    /\ samples_got[UI] = 3 * block_len

\* ---- continuous capture
\* C18: stop takes effect.  A loop_capture thread that was running when
\* stop_continuous or unlock_button cleared is_running begins no new capture
\* cycle afterwards, also when toggle_continuous has been invoked again
\* before the thread tested the flag.
StopTakesEffect ==
    [][\A t \in LoopThreads :
          (t \in stopped /\ lp[t] = "test") => lp'[t] # "body"]_vars

\* ---- the session
\* C19: no use after disconnect.  While the App is disconnected and
\* self._osci is None, no caller issues a write, read_raw or query on the
\* session: every such call of a caller ends in the AttributeError of None.
NoUseAfterDisconnect ==
    [][\A t \in Callers :
          (~is_connected /\ osci = "None" /\ gw[t] \in SessionCalls
              /\ gw'[t] # gw[t])
          => exc'[t] = "AttributeError"]_vars

====
